---- MODULE Spec2Model ----
(***************************************************************************)
(* Model of the browser-side RPC bridge of realm-js, lib/browser/rpc.js:   *)
(* the request dispatcher sendRequest (with its in-band callback chain),   *)
(* the poll timer and its backoff, the callback registry and the session. *)
(*                                                                         *)
(* JavaScript runs one task at a time and makeRequest is a synchronous    *)
(* XMLHttpRequest, so the only points at which a dispatch is suspended are *)
(* the blocking transport call (a frame with pc = "await") and the calls   *)
(* that enclose it.  A step of the model runs the code from one blocking   *)
(* point to the next.                                                      *)
(***************************************************************************)
EXTENDS Integers, Sequences, FiniteSets, TLC

VARIABLES
    stack,                \* the sendRequest activations, innermost last
    timers,               \* the ids of the armed one-shot timers
    pollTimeoutId,        \* rpc.js:274
    pollTimeout,          \* rpc.js:275
    sessionHost,          \* rpc.js:34
    sessionId,            \* rpc.js:35
    registeredCallbacks,  \* rpc.js:26
    persistent,           \* the callables that carry the persistentCallback symbol
    task,                 \* the exported function or timer callback that is running
    outcome,              \* event: what the task that ended in the last step got
    lastResponse,         \* event: the response the transport delivered in the last step
    lastCall,             \* event: the last sendRequest entered in the last step
    lastCb,               \* event: the last callback request handled in the last step
    armed,                \* event: the delay of the last timer armed in the last step
    pollTick,             \* history: flips each time the poll timer callback runs
    registered,           \* event: what the last step did to the registry
    codec                 \* the value the codec is applied to, and what it made of it

vars == <<stack, timers, pollTimeoutId, pollTimeout, sessionHost, sessionId,
          registeredCallbacks, persistent, task, outcome, lastResponse,
          lastCall, lastCb, armed, pollTick, registered, codec>>

-----------------------------------------------------------------------------
(* Bounds of the model *)

MaxTimers == 3      \* timers armed plus activations never exceed this
MaxHandle == 1      \* the remote asks for callback handles 0..MaxHandle
MaxLen == 2         \* elements of a sequence or keyed object given to the codec
MaxDepth == 2       \* nesting of the values given to the codec

(* Program constants *)

PollFloor == 10     \* rpc.js:275 and rpc.js:311
PollLimit == 1000   \* rpc.js:313

-----------------------------------------------------------------------------
(* Values *)

NoHost == ""            \* host is undefined (falsy)
Hosts == {"h1", "h2"}
NoSession == 0          \* sessionId is undefined (falsy)
Results == {1, 2}       \* response.result
NoCallback == -1        \* response.callback / data.callback is absent
NoCounter == 0
Counters == {1, 2}      \* response.callback_call_counter
NoValue == 0            \* data.result is undefined
CbValue == 1            \* the serialized return value of a callback
NoTimer == 0            \* pollTimeoutId is undefined
NotArmed == 0           \* no timer was armed
RefreshCallables == {"f1"}   \* the callables given to createSession
ArgCallables == {"f2"}       \* the callables given as arguments of a call
Callables == RefreshCallables \cup ArgCallables
NoCallable == ""

UserCommands == {"create_session", "call_method", "clear_test_state"}
FollowUps == {"callback_result", "callback_poll_result"}
Commands == UserCommands \cup FollowUps \cup {"callbacks_poll"}

NoCompletion == [kind |-> "none", value |-> 0, name |-> "", message |-> "",
                 ncb |-> 0, nfu |-> 0]
Return(v, f) == [kind |-> "return", value |-> v, name |-> "", message |-> "",
                 ncb |-> f.ncb, nfu |-> f.nfu]
Throw(n, msg, f) == [kind |-> "throw", value |-> 0, name |-> n, message |-> msg,
                     ncb |-> f.ncb, nfu |-> f.nfu]

\* a response; to and before are history: the command it answers and whether
\* pollTimeout was above the floor when it arrived
NoResponse == [kind |-> "none", callback |-> NoCallback, counter |-> NoCounter,
               result |-> 0, error |-> "", message |-> "", to |-> "", before |-> FALSE]
NoError == [text |-> "", id |-> NoCallback]
NoData == [callback |-> NoCallback, counter |-> NoCounter, result |-> NoValue,
           error |-> NoError]
NoHostMessage == "Must first create RPC session with a valid host"  \* rpc.js:298
NoOutcome == [kind |-> "none", value |-> 0, name |-> "", message |-> ""]
NoFrameInfo == [root |-> "", ncb |-> 0, nfu |-> 0]

-----------------------------------------------------------------------------
(* Timers: setTimeout and clearTimeout of the host environment *)

TimerIds == 1..MaxTimers

ClearTimeout(tms, id) == tms \ {id}

FreshTimer(tms) ==
    CHOOSE i \in TimerIds \ tms : \A j \in TimerIds \ tms : i <= j

\* rpc.js:370, the body of the finally block
Arm(m) ==
    LET id == FreshTimer(m.timers)
    IN  [m EXCEPT !.timers = @ \cup {id},
                  !.pollTimeoutId = id,
                  !.armed = m.pollTimeout]

\* the poll is armed on success only
RearmOnReturn(m, c) == IF c.kind = "return" THEN Arm(m) ELSE m

\* rpc.js:369-371: finally runs on every exit, whatever the completion c
Rearm(m, c) == Arm(m)

-----------------------------------------------------------------------------
(* The pieces of sendRequest *)

\* the host check dropped
HostNeverMissing(host) == FALSE

\* rpc.js:297
HostMissing(host) == host = NoHost

\* rpc.js:294, the default parameter: host = sessionHost when host is undefined
EffectiveHost(host) == IF host = NoHost THEN sessionHost ELSE host

\* JavaScript truthiness of response.callback: undefined and 0 are falsy
Truthy(callback) == callback # NoCallback /\ callback # 0

\* the reset for other commands dropped
NextPollTimeoutOnCallbackOnly(command, callback, pt) ==
    IF Truthy(callback) THEN PollFloor
    ELSE IF pt < PollLimit THEN pt * 2 ELSE pt

\* the doubling without its limit
NextPollTimeoutUnlimited(command, callback, pt) ==
    IF Truthy(callback) \/ command # "callbacks_poll" THEN PollFloor
    ELSE pt * 2

\* the doubling clamped to the limit
NextPollTimeoutClamped(command, callback, pt) ==
    IF Truthy(callback) \/ command # "callbacks_poll" THEN PollFloor
    ELSE IF pt * 2 < PollLimit THEN pt * 2 ELSE PollLimit

\* rpc.js:310-315
NextPollTimeout(command, callback, pt) ==
    IF Truthy(callback) \/ command # "callbacks_poll" THEN PollFloor
    ELSE IF pt < PollLimit THEN pt * 2 ELSE pt

\* a test for a truthy handle in place of the test against null
CallbackRequestedTruthy(callback) == Truthy(callback)

\* rpc.js:339: callback != null
CallbackRequested(callback) == callback # NoCallback

\* the poll-result case forgotten
CallbackCommandPollOnly(command) ==
    IF command = "callbacks_poll" THEN "callback_poll_result" ELSE "callback_result"

\* rpc.js:359-362
CallbackCommand(command) ==
    IF command = "callbacks_poll" \/ command = "callback_poll_result"
    THEN "callback_poll_result" ELSE "callback_result"

\* rpc.js:345-346: registeredCallbacks[callback], undefined past the end
Resolve(reg, callback) ==
    IF callback >= 0 /\ callback < Len(reg) THEN reg[callback + 1] ELSE NoCallable

\* rpc.js:322 and 329: error.replace(/^[a-z]+: /i, '')
StripPrefix(s) ==
    IF s = "Error: boom" THEN "boom"
    ELSE IF s = "Error: " THEN ""
    ELSE s

\* rpc.js:337: `Invalid response for "${command}"`
GenericMessage(command) ==
    CASE command = "create_session" -> "Invalid response for \"create_session\""
      [] command = "call_method" -> "Invalid response for \"call_method\""
      [] command = "clear_test_state" -> "Invalid response for \"clear_test_state\""
      [] command = "callbacks_poll" -> "Invalid response for \"callbacks_poll\""
      [] command = "callback_result" -> "Invalid response for \"callback_result\""
      [] OTHER -> "Invalid response for \"callback_poll_result\""

\* rpc.js:353: e.message || ('' + e), for a thrown Error or a thrown string
ErrorText(o) ==
    IF o.name = "string" THEN o.message
    ELSE IF o.message # "" THEN o.message ELSE o.name

\* rpc.js:317-338: the error a response that is an error outcome raises
ResponseError(resp, f) ==
    IF resp.kind = "null"
    THEN Throw("TypeError", "Cannot read property 'type' of null", f)
    ELSE IF resp.kind = "errorDict"
    THEN Throw("Error", StripPrefix(resp.message), f)
    ELSE LET error == StripPrefix(resp.error)       \* rpc.js:337: error || generic
         IN  Throw("Error", IF error # "" THEN error ELSE GenericMessage(f.command), f)

-----------------------------------------------------------------------------
(* sendRequest.  A machine m is the record of what a run of the dispatcher  *)
(* changes: [stack, timers, pollTimeoutId, pollTimeout, done, lastCall,     *)
(* lastCb, armed, answered]; done is the completion handed to the task once *)
(* the outermost activation has exited; answered is history: a command      *)
(* other than callbacks_poll has had a response in this task.               *)

\* rpc.js:301: Object.assign({}, data, sessionId ? { sessionId } : null), the
\* session id the request carries (NoSession is falsy: none is attached)
AttachedSessionIdFirstOnly(command) ==
    IF command \in FollowUps THEN NoSession ELSE sessionId

AttachedSessionId(command) == sessionId

RECURSIVE Begin(_, _, _, _, _), Finish(_, _), AfterCallback(_, _)

\* rpc.js:294-304: entry of sendRequest up to the blocking makeRequest
Begin(m, command, data, host, info) ==
    LET f == [command |-> command, host |-> host, sid |-> AttachedSessionId(command),
              data |-> data, pc |-> "await", resp |-> NoResponse,
              root |-> info.root, ncb |-> info.ncb, nfu |-> info.nfu]
        sent == ~HostMissing(host)
        m1 == [m EXCEPT !.timers = ClearTimeout(@, m.pollTimeoutId),
                        !.stack = Append(@, f),
                        !.lastCall = [command |-> command, host |-> host,
                                      sent |-> sent],
                        !.lastCb = IF command \in FollowUps /\ sent
                                   THEN [@ EXCEPT !.sent = TRUE] ELSE @]
    IN  IF sent THEN m1
        ELSE Finish(m1, Throw("Error", NoHostMessage, f))

\* rpc.js:369-371 and the return to the caller: the innermost activation
\* exits with completion c
Finish(m, c) ==
    LET n == Len(m.stack)
        rest == SubSeq(m.stack, 1, n - 1)
        m1 == Rearm([m EXCEPT !.stack = rest], c)
    IN  IF n = 1 THEN [m1 EXCEPT !.done = c]
        ELSE IF rest[n - 1].pc = "followup"
        THEN Finish(m1, c)                       \* rpc.js:364, return sendRequest(...)
        ELSE AfterCallback(m1,                   \* the call was made by a callback
                 IF c.kind = "return"
                 THEN [kind |-> "return", value |-> CbValue, name |-> "", message |-> ""]
                 ELSE [kind |-> "throw", value |-> 0, name |-> c.name,
                       message |-> c.message])

\* rpc.js:347-364: the callback has finished with outcome o (returned, threw,
\* or was not found); report it in a follow-up request
AfterCallback(m, o) ==
    LET n == Len(m.stack)
        f == m.stack[n]
        data == [callback |-> f.resp.callback,
                 counter |-> f.resp.counter,
                 result |-> IF o.kind = "return" THEN o.value ELSE NoValue,
                 error |-> IF o.kind = "throw"
                           THEN [text |-> ErrorText(o), id |-> NoCallback]
                           ELSE IF o.kind = "unknown"
                           THEN [text |-> "Unknown callback id", id |-> f.resp.callback]
                           ELSE NoError]
        cb == [callback |-> f.resp.callback, command |-> f.command,
               outcome |-> o, data |-> NoData, sent |-> FALSE,
               nth |-> m.lastCb.nth + 1]
    IN  IF o.kind = "throw" /\ o.name = "null"
        THEN \* rpc.js:353: reading e.message of null throws out of the catch block
             Finish([m EXCEPT !.lastCb = cb],
                    Throw("TypeError", "Cannot read property 'message' of null", f))
        ELSE Begin([m EXCEPT !.stack[n].pc = "followup",
                             !.stack[n].resp = NoResponse,
                             !.lastCb = [cb EXCEPT !.data = data]],
                   CallbackCommand(f.command), data, EffectiveHost(NoHost),
                   [root |-> f.root, ncb |-> f.ncb, nfu |-> f.nfu + 1])

-----------------------------------------------------------------------------
(* The codec: serialize, rpc.js:176-208, and deserialize, rpc.js:210-234 *)

\* JavaScript values: undefined, null, a primitive p, a Date of p ms, an Array
\* of items, and a plain object with its own enumerable keys in
\* Object.keys order and the items they hold
JsValue(t, p, ks, items) == [t |-> t, p |-> p, keys |-> ks, items |-> items]
Undefined == JsValue("undefined", 0, <<>>, <<>>)
Null == JsValue("null", 0, <<>>, <<>>)
Primitive(p) == JsValue("primitive", p, <<>>, <<>>)
DateOf(ms) == JsValue("date", ms, <<>>, <<>>)
ArrayOf(items) == JsValue("array", 0, <<>>, items)
ObjectOf(ks, items) == JsValue("object", 0, ks, items)

\* the type tags, objectTypes.* of ./constants; "" is an absent type
TypeUndefined == "undefined"    \* rpc.js:178
TypeDate == "date"              \* rpc.js:46 and rpc.js:193
TypeDict == "dict"              \* rpc.js:47 and rpc.js:207
NoType == ""

\* the wire form { type, value, keys, values }; value is absent, null, a
\* primitive p or an array of wire forms
Info(type, vkind, p, array, ks, values) ==
    [type |-> type, vkind |-> vkind, p |-> p, array |-> array,
     keys |-> ks, values |-> values]

\* rpc.js:45-48: the types that have a converter, among those modelled
TypeConverters == {TypeDate, TypeDict}

\* the key whose assignment on an ordinary object sets the prototype
ProtoKey == "__proto__"

\* rpc.js:230: object[key] = val on an ordinary object.  Assigning to
\* __proto__ goes to the accessor of Object.prototype and creates no own
\* property.
SetProperty(object, key, val) ==
    IF key = ProtoKey THEN object
    ELSE IF \E i \in 1..Len(object.keys) : object.keys[i] = key
    THEN LET i == CHOOSE i \in 1..Len(object.keys) : object.keys[i] = key
         IN  [object EXCEPT !.items[i] = val]
    ELSE [object EXCEPT !.keys = Append(@, key), !.items = Append(@, val)]

RECURSIVE Serialize(_), Deserialize(_), DeserializeDict(_, _, _)

\* rpc.js:176-208, for values that are no callable, remote reference or binary
Serialize(value) ==
    IF value.t = "undefined"                                   \* rpc.js:177
    THEN Info(TypeUndefined, "absent", 0, <<>>, <<>>, <<>>)
    ELSE IF value.t = "null"                                   \* rpc.js:183
    THEN Info(NoType, "null", 0, <<>>, <<>>, <<>>)
    ELSE IF value.t = "primitive"
    THEN Info(NoType, "primitive", value.p, <<>>, <<>>, <<>>)
    ELSE IF value.t = "date"                                   \* rpc.js:192
    THEN Info(TypeDate, "primitive", value.p, <<>>, <<>>, <<>>)
    ELSE IF value.t = "array"                                  \* rpc.js:196
    THEN Info(NoType, "array", 0,
              [i \in 1..Len(value.items) |-> Serialize(value.items[i])],
              <<>>, <<>>)
    ELSE Info(TypeDict, "absent", 0, <<>>, value.keys,         \* rpc.js:205
              [i \in 1..Len(value.keys) |-> Serialize(value.items[i])])

\* rpc.js:46: new Date(value)
DeserializeDate(info) == DateOf(info.p)

\* rpc.js:210-223
Deserialize(info) ==
    IF info.type # NoType /\ info.type \in TypeConverters      \* rpc.js:212
    THEN IF info.type = TypeDate THEN DeserializeDate(info)
         ELSE DeserializeDict(info, 1, ObjectOf(<<>>, <<>>))
    ELSE IF info.vkind = "array"                               \* rpc.js:218
    THEN ArrayOf([i \in 1..Len(info.array) |-> Deserialize(info.array[i])])
    ELSE IF info.vkind = "absent" THEN Undefined               \* rpc.js:222
    ELSE IF info.vkind = "null" THEN Null
    ELSE Primitive(info.p)

\* rpc.js:225-234: the loop from index i on, with the object built so far
DeserializeDict(info, i, object) ==
    IF i > Len(info.keys) THEN object
    ELSE DeserializeDict(info, i + 1,
             SetProperty(object, info.keys[i], Deserialize(info.values[i])))

\* The values given to the codec
Primitives == {0, 7}            \* a falsy and a truthy primitive
Times == {0, 5}                 \* milliseconds of a Date
Keys == {"a", ProtoKey}
Atoms ==
    {Undefined, Null} \cup {Primitive(p) : p \in Primitives}
                      \cup {DateOf(ms) : ms \in Times}

SeqsUpTo(S, n) == UNION {[1..k -> S] : k \in 0..n}

KeySeqs(n) ==
    {ks \in SeqsUpTo(Keys, n) : \A i, j \in 1..Len(ks) : ks[i] = ks[j] => i = j}

FlatValues ==
    Atoms \cup {ArrayOf(items) : items \in SeqsUpTo(Atoms, MaxLen)}
          \cup UNION {{ObjectOf(ks, items) : items \in [1..Len(ks) -> Atoms]} :
                         ks \in KeySeqs(MaxLen)}

RECURSIVE ValuesOfDepth(_)
ValuesOfDepth(d) ==
    IF d <= 1 THEN FlatValues
    ELSE LET inner == ValuesOfDepth(d - 1)
         IN  inner \cup {ArrayOf(<<v>>) : v \in inner}
                   \cup {ObjectOf(<<k>>, <<v>>) : k \in Keys, v \in inner}

Values == ValuesOfDepth(MaxDepth)

NoInfo == Info(NoType, "absent", 0, <<>>, <<>>, <<>>)
NoCodec == [phase |-> "idle", value |-> Undefined, info |-> NoInfo, out |-> Undefined]

-----------------------------------------------------------------------------
(* State *)

NoCall == [command |-> "", host |-> NoHost, sent |-> FALSE]
NoCb == [callback |-> NoCallback, command |-> "", outcome |-> NoOutcome,
         data |-> NoData, sent |-> FALSE, nth |-> 0]
Idle == [op |-> "idle", host |-> NoHost, answered |-> FALSE]
NoRegistration == [fn |-> NoCallable, key |-> NoCallback, known |-> FALSE, before |-> 0]
NoTaskOutcome == [op |-> "idle", c |-> NoCompletion, answered |-> FALSE]

DispatcherInit ==
    /\ stack = <<>>
    /\ timers = {}
    /\ pollTimeoutId = NoTimer
    /\ pollTimeout = PollFloor
    /\ sessionHost = NoHost
    /\ sessionId = NoSession
    /\ registeredCallbacks = <<>>
    /\ persistent = {}
    /\ task = Idle
    /\ outcome = NoTaskOutcome
    /\ lastResponse = NoResponse
    /\ lastCall = NoCall
    /\ lastCb = NoCb
    /\ armed = NotArmed
    /\ pollTick = FALSE
    /\ registered = NoRegistration

Init == DispatcherInit /\ codec = NoCodec

\* the machine of the current state, with the timers tms and backoff pt
Machine(tms, pt) ==
    [stack |-> stack, timers |-> tms, pollTimeoutId |-> pollTimeoutId,
     pollTimeout |-> pt, done |-> NoCompletion, lastCall |-> NoCall,
     lastCb |-> NoCb, armed |-> NotArmed, answered |-> task.answered]

\* a task may start only when no other is running: JavaScript runs each task
\* to completion, and makeRequest blocks (rpc.js:260, open(..., false))
TaskCanStartAnytime == TRUE

TaskCanStart == stack = <<>>

\* the remote may open one more activation
Room ==
    Cardinality(ClearTimeout(timers, pollTimeoutId)) + Len(stack) + 1 <= MaxTimers

\* rpc.js:172: registeredCallbacks.indexOf(callback), a handle or -1
IndexOf(reg, fn) ==
    IF \E i \in 1..Len(reg) : reg[i] = fn
    THEN (CHOOSE i \in 1..Len(reg) : reg[i] = fn /\ \A j \in 1..(i - 1) : reg[j] # fn) - 1
    ELSE -1

\* rpc.js:173: the handle registerCallback returns
RegisteredKey(reg, fn) ==
    IF IndexOf(reg, fn) >= 0 THEN IndexOf(reg, fn) ELSE Len(reg)

\* rpc.js:171-174: the registry after registerCallback(fn)
RegisterCallbackAlwaysPush(reg, fn) == Append(reg, fn)

RegisterCallback(reg, fn) ==
    IF IndexOf(reg, fn) >= 0 THEN reg ELSE Append(reg, fn)

\* rpc.js:168
ClearCallbacksAll(reg, pers) == <<>>

ClearCallbacks(reg, pers) == SelectSeq(reg, LAMBDA cb : cb \in pers)

\* The state after the dispatcher has run to its next blocking point, for the
\* task tk with the registry reg.  When the outermost activation has exited,
\* the exported function that called it continues: rpc.js:56-58 for
\* createSession, rpc.js:168 for clearTestState.
Commit(m, tk, fn, pers) ==
  LET reg == IF fn = NoCallable THEN registeredCallbacks
             ELSE RegisterCallback(registeredCallbacks, fn)
      key == RegisteredKey(registeredCallbacks, fn)
  IN
    /\ UNCHANGED codec
    /\ persistent' = pers
    /\ registered' =
          IF fn # NoCallable
          THEN [fn |-> fn, key |-> key,
                known |-> \E i \in 1..Len(registeredCallbacks) :
                             registeredCallbacks[i] = fn,
                before |-> Len(registeredCallbacks)]
          ELSE IF tk.op = "clearTestState" /\ m.done.kind = "return"
          THEN [NoRegistration EXCEPT !.before = Len(registeredCallbacks)]
          ELSE NoRegistration
    /\ stack' = m.stack
    /\ timers' = m.timers
    /\ pollTimeoutId' = m.pollTimeoutId
    /\ pollTimeout' = m.pollTimeout
    /\ lastCall' = m.lastCall
    /\ lastCb' = m.lastCb
    /\ armed' = m.armed
    /\ IF m.done.kind = "none"
       THEN /\ task' = [tk EXCEPT !.answered = m.answered]
            /\ registeredCallbacks' = reg
            /\ outcome' = NoTaskOutcome
            /\ UNCHANGED <<sessionHost, sessionId>>
       ELSE /\ task' = Idle
            /\ outcome' = [op |-> tk.op, c |-> m.done, answered |-> m.answered]
            /\ IF tk.op = "createSession" /\ m.done.kind = "return"
               THEN sessionId' = m.done.value /\ sessionHost' = tk.host
               ELSE UNCHANGED <<sessionHost, sessionId>>
            /\ IF tk.op = "clearTestState" /\ m.done.kind = "return"
               THEN registeredCallbacks' = ClearCallbacks(reg, pers)
               ELSE registeredCallbacks' = reg

-----------------------------------------------------------------------------
(* Tasks: the exported functions and the poll timer *)

\* rpc.js:54-59
CreateSession(fn, host) ==
    /\ TaskCanStart
    /\ Room
    /\ Commit(Begin(Machine(timers, pollTimeout), "create_session", NoData,
                    EffectiveHost(host), [NoFrameInfo EXCEPT !.root = "create_session"]),
              [op |-> "createSession", host |-> host, answered |-> FALSE],
              fn, persistent \cup {fn})
    /\ lastResponse' = NoResponse
    /\ UNCHANGED pollTick

\* rpc.js:129-136, with a callable or no callable among the arguments
CallMethod(fn) ==
    /\ TaskCanStart
    /\ Room
    /\ Commit(Begin(Machine(timers, pollTimeout), "call_method", NoData,
                    EffectiveHost(NoHost), [NoFrameInfo EXCEPT !.root = "call_method"]),
              [op |-> "callMethod", host |-> NoHost, answered |-> FALSE],
              fn, persistent)
    /\ lastResponse' = NoResponse
    /\ UNCHANGED pollTick

\* rpc.js:164-169
ClearTestState ==
    /\ TaskCanStart
    /\ Room
    /\ Commit(Begin(Machine(timers, pollTimeout), "clear_test_state", NoData,
                    EffectiveHost(NoHost), [NoFrameInfo EXCEPT !.root = "clear_test_state"]),
              [op |-> "clearTestState", host |-> NoHost, answered |-> FALSE],
              NoCallable, persistent)
    /\ lastResponse' = NoResponse
    /\ UNCHANGED pollTick

\* rpc.js:370: the timer callback, () => sendRequest('callbacks_poll')
\* Which of several armed timers is due first depends on elapsed time, so any
\* of them may be the one that fires.
TimerFire(t) ==
    /\ TaskCanStart
    /\ t \in timers
    /\ Commit(Begin(Machine(timers \ {t}, pollTimeout), "callbacks_poll", NoData,
                    EffectiveHost(NoHost), [NoFrameInfo EXCEPT !.root = "callbacks_poll"]),
              [op |-> "poll", host |-> NoHost, answered |-> FALSE],
              NoCallable, persistent)
    /\ lastResponse' = NoResponse
    /\ pollTick' = ~pollTick

-----------------------------------------------------------------------------
(* The transport returns: makeRequest, rpc.js:240-272, and what sendRequest *)
(* does with the response, rpc.js:305-367                                   *)

Top == stack[Len(stack)]
Awaiting == stack # <<>> /\ Top.pc = "await"

\* the machine after the response resp has been received by the innermost
\* activation: rpc.js:305-315
Received(resp) ==
    LET n == Len(stack)
        m == Machine(timers, NextPollTimeout(Top.command, resp.callback, pollTimeout))
    IN  [m EXCEPT !.answered = @ \/ Top.command # "callbacks_poll",
                  !.stack[n].resp = resp,
                  !.stack[n].data = NoData,     \* the payload is not used again
                  !.stack[n].ncb = IF resp.kind = "callback" THEN @ + 1 ELSE @]

\* rpc.js:267-269: a status other than 200
TransportFailure ==
    /\ Awaiting
    /\ Commit(Finish(Machine(timers, pollTimeout), Throw("Error", "body", Top)),
              task, NoCallable, persistent)
    /\ lastResponse' = NoResponse
    /\ UNCHANGED pollTick

\* rpc.js:317-338: the response is null, or carries an error
RespondError(resp) ==
    /\ Awaiting
    /\ lastResponse' = [resp EXCEPT !.to = Top.command, !.before = pollTimeout > PollFloor]
    /\ Commit(Finish(Received(resp), ResponseError(resp, Top)),
              task, NoCallable, persistent)
    /\ UNCHANGED pollTick

\* rpc.js:339-367 for a response {result} or {callback, this, arguments,
\* callback_call_counter}; does is what the callback does when it is run
Respond(resp, does) ==
    /\ Awaiting
    /\ resp.kind = "callback" => Room
    /\ resp.kind = "result" => does.kind = "return" /\ does.name = ""
    /\ lastResponse' = [resp EXCEPT !.to = Top.command, !.before = pollTimeout > PollFloor]
    /\ LET m == Received(resp)
           n == Len(stack)
           fn == Resolve(registeredCallbacks, resp.callback)
       IN  IF CallbackRequested(resp.callback)
           THEN IF fn = NoCallable
                THEN /\ does.kind = "return" /\ does.name = ""
                     /\ Commit(AfterCallback(m, [NoOutcome EXCEPT !.kind = "unknown"]),
                               task, NoCallable, persistent)
                ELSE IF does.kind = "call"
                THEN Commit(Begin([m EXCEPT !.stack[n].pc = "callback"],
                                  "call_method", NoData, EffectiveHost(NoHost),
                                  [NoFrameInfo EXCEPT !.root = "call_method"]),
                            task, NoCallable, persistent)
                ELSE Commit(AfterCallback(m, does), task, NoCallable, persistent)
           ELSE /\ does.kind = "return" /\ does.name = ""
                /\ Commit(Finish(m, Return(resp.result, m.stack[n])),
                          task, NoCallable, persistent)
    /\ UNCHANGED pollTick

\* the responses of the remote
ResultResponses ==
    {[NoResponse EXCEPT !.kind = "result", !.result = r] : r \in Results}
CallbackResponses ==
    {[NoResponse EXCEPT !.kind = "callback", !.callback = h, !.counter = c] :
        h \in 0..MaxHandle, c \in Counters}
ErrorResponses ==
    {[NoResponse EXCEPT !.kind = "null"],
     [NoResponse EXCEPT !.kind = "error", !.error = "Error: boom"],
     [NoResponse EXCEPT !.kind = "error", !.error = "boom"],
     [NoResponse EXCEPT !.kind = "error", !.error = "Error: "],
     [NoResponse EXCEPT !.kind = "errorDict", !.error = "dict", !.message = "Error: boom"]}

\* what a callback does: return a value, throw an Error, a string or null,
\* or call an exported function and return after it (failing if it fails)
CallbackBehaviours ==
    {[NoOutcome EXCEPT !.kind = "return", !.value = CbValue],
     [NoOutcome EXCEPT !.kind = "throw", !.name = "Error", !.message = "boom"],
     [NoOutcome EXCEPT !.kind = "throw", !.name = "string", !.message = "oops"],
     [NoOutcome EXCEPT !.kind = "throw", !.name = "null"],
     [NoOutcome EXCEPT !.kind = "call"]}

\* the poll timer callback runs
Poll == \E t \in timers : TimerFire(t)

\* the blocking transport call returns
Remote ==
    \/ TransportFailure
    \/ \E resp \in ErrorResponses : RespondError(resp)
    \/ \E resp \in ResultResponses \cup CallbackResponses, does \in CallbackBehaviours :
           Respond(resp, does)

Next ==
    \/ \E fn \in RefreshCallables, host \in Hosts \cup {NoHost} : CreateSession(fn, host)
    \/ \E fn \in ArgCallables \cup {NoCallable} : CallMethod(fn)
    \/ ClearTestState
    \/ Poll
    \/ Remote

Spec == Init /\ [][Next]_vars

\* The same program with one client that opens the session on one host and
\* makes plain calls, and a remote that answers with one value, one callback
\* request or one error.  An armed timer fires once the running task has
\* ended, and the synchronous request returns (with a response or a failure
\* status): both are weakly fair.
QuietRemote ==
    \/ TransportFailure
    \/ RespondError([NoResponse EXCEPT !.kind = "error", !.error = "Error: boom"])
    \/ \E resp \in {[NoResponse EXCEPT !.kind = "result", !.result = 1],
                     [NoResponse EXCEPT !.kind = "callback", !.callback = 0, !.counter = 1]},
          does \in {[NoOutcome EXCEPT !.kind = "return", !.value = CbValue],
                    [NoOutcome EXCEPT !.kind = "throw", !.name = "null"]} :
           Respond(resp, does)

QuietNext ==
    \/ CreateSession("f1", "h1")
    \/ CallMethod(NoCallable)
    \/ Poll
    \/ QuietRemote

FairSpec == Init /\ [][QuietNext]_vars /\ WF_vars(Poll) /\ WF_vars(QuietRemote)

-----------------------------------------------------------------------------
(* The codec applied to a value *)

\* a caller holds a value
CodecInit ==
    /\ DispatcherInit
    /\ codec \in {[NoCodec EXCEPT !.phase = "value", !.value = v] : v \in Values}

Dispatcher == <<stack, timers, pollTimeoutId, pollTimeout, sessionHost, sessionId,
                registeredCallbacks, persistent, task, outcome, lastResponse,
                lastCall, lastCb, armed, pollTick, registered>>

\* serialize(realmId, value)
SerializeStep ==
    /\ codec.phase = "value"
    /\ codec' = [codec EXCEPT !.phase = "wire", !.info = Serialize(codec.value)]
    /\ UNCHANGED Dispatcher

\* deserialize(realmId, info)
DeserializeStep ==
    /\ codec.phase = "wire"
    /\ codec' = [codec EXCEPT !.phase = "decoded", !.out = Deserialize(codec.info)]
    /\ UNCHANGED Dispatcher

CodecNext == SerializeStep \/ DeserializeStep

CodecSpec == CodecInit /\ [][CodecNext]_vars

-----------------------------------------------------------------------------
(* Properties *)

InFlight == Cardinality({i \in 1..Len(stack) : stack[i].pc = "await"})
PollArmed == pollTimeoutId \in timers
ClientOps == {"createSession", "callMethod", "clearTestState"}
\* C1: at most one request is awaiting its response at any time, whatever the
\* interleaving of client calls, callback follow-ups, calls made by callbacks
\* and poll-timer firings.
C1_OneRequestInFlight == InFlight <= 1

\* a request made by a callback is in flight while a poll timer is still armed
C1_Witness ==
    /\ InFlight = 1
    /\ Len(stack) >= 2
    /\ stack[Len(stack) - 1].pc = "callback"
    /\ timers # {}

\* C2 as stated: pollTimeout is never below 10 and never above 1000.
C2_Original == pollTimeout >= PollFloor /\ pollTimeout <= PollLimit

\* C2 as amended: pollTimeout is never below 10 and never above 1280, the
\* first doubling of 10 that is not below 1000.
C2_PollTimeoutRange == pollTimeout >= PollFloor /\ pollTimeout <= 1280

\* the backoff has passed the limit
C2_Witness == pollTimeout = 1280 /\ outcome.op = "poll"

\* C3: every exit of a dispatch leaves a poll timer armed with the current
\* pollTimeout, and from then on, unless the client acts again, the poll
\* timer callback always eventually runs again.
C3_Armed ==
    /\ outcome.op # "idle" => PollArmed /\ armed = pollTimeout
    /\ stack = <<>> /\ pollTimeoutId # NoTimer => PollArmed

ClientActive == task.op \in ClientOps \/ outcome.op \in ClientOps

C3_PollingNeverStops ==
    /\ []C3_Armed
    /\ \A b \in BOOLEAN :
           [](pollTimeoutId # NoTimer /\ pollTick = b
                  => <>(pollTick # b \/ ClientActive))

\* a poll that failed for want of a host has left the timer armed
C3_Witness ==
    /\ outcome.op = "poll"
    /\ outcome.c.kind = "throw"
    /\ outcome.c.message = NoHostMessage
    /\ PollArmed

\* C4: once a command other than callbacks_poll has had a response in a task,
\* pollTimeout is 10, right after the response and until the task ends.
C4_OtherCommandResets ==
    /\ lastResponse.kind # "none" /\ lastResponse.to # "callbacks_poll"
           => pollTimeout = PollFloor
    /\ task.answered \/ outcome.answered => pollTimeout = PollFloor

\* an error response to an ordinary command has reset a backed-off pollTimeout
C4_Witness ==
    /\ lastResponse.to = "call_method"
    /\ lastResponse.kind = "null"
    /\ lastResponse.before
    /\ outcome.op = "callMethod"
    /\ pollTimeout = PollFloor

\* C5: a callbacks_poll whose response carries a callback request leaves
\* pollTimeout at 10, right after the response and when the poll task ends.
C5_PollCallbackResets ==
    /\ lastResponse.to = "callbacks_poll" /\ lastResponse.kind = "callback"
           => pollTimeout = PollFloor
    /\ outcome.op = "poll" /\ outcome.c.ncb > 0 => pollTimeout = PollFloor

\* C6: a follow-up is callback_poll_result exactly when the command that
\* triggered it was callbacks_poll or callback_poll_result; so every follow-up
\* of a chain started by a poll is callback_poll_result and every follow-up
\* of a chain started by another command is callback_result.
C6_FollowUpCommand ==
    /\ \A i \in 1..(Len(stack) - 1) :
           stack[i].pc = "followup" =>
               /\ stack[i + 1].command \in FollowUps
               /\ stack[i + 1].command = "callback_poll_result"
                      <=> stack[i].command \in {"callbacks_poll", "callback_poll_result"}
    /\ \A i \in 1..Len(stack) :
           stack[i].command \in FollowUps =>
               stack[i].command = IF stack[i].root = "callbacks_poll"
                                  THEN "callback_poll_result"
                                  ELSE "callback_result"

\* the second follow-up of a chain started by a poll is in flight
C6_Witness ==
    /\ Len(stack) = 3
    /\ stack[1].command = "callbacks_poll"
    /\ stack[2].command = "callback_poll_result" /\ stack[2].pc = "followup"
    /\ stack[3].command = "callback_poll_result" /\ stack[3].pc = "await"

\* C7: every callback request of a chain gets exactly one follow-up, which
\* carries the request's handle and call counter, and a task that receives a
\* plain result after n callback requests has sent n follow-ups and is handed
\* that result.
C7_OneFollowUpPerCallback ==
    /\ Awaiting => Top.nfu = Top.ncb
    /\ Awaiting /\ lastCb.sent /\ lastCb.nth = 1 /\ lastResponse.kind = "callback" =>
           /\ Top.command \in FollowUps
           /\ Top.data.callback = lastResponse.callback
           /\ Top.data.counter = lastResponse.counter
    /\ outcome.c.kind = "return" =>
           /\ lastResponse.kind = "result"
           /\ outcome.c.value = lastResponse.result
           /\ outcome.c.nfu = outcome.c.ncb

\* a task has been handed the result that followed two callback requests
C7_Witness ==
    /\ outcome.c.kind = "return"
    /\ outcome.c.ncb = 2
    /\ outcome.c.nfu = 2
    /\ outcome.c.value = 2

\* C8: when a callback throws (in a session whose host is bound), a follow-up
\* is sent with the failure's message as error and no result, and the task is
\* not handed the failure.
C8_CallbackFailureReported ==
    lastCb.outcome.kind = "throw" /\ sessionHost # NoHost =>
        /\ lastCb.sent
        /\ lastCb.data.error = [text |-> ErrorText(lastCb.outcome), id |-> NoCallback]
        /\ lastCb.data.result = NoValue
        /\ outcome.op = "idle"

\* C9: when the requested handle does not resolve, a follow-up is sent whose
\* error is the unknown-callback string for that handle, nothing is raised and
\* the dispatch goes on with the follow-up in flight.
C9_UnknownCallbackReported ==
    lastCb.outcome.kind = "unknown" =>
        /\ lastCb.sent
        /\ lastCb.data.error = [text |-> "Unknown callback id", id |-> lastCb.callback]
        /\ outcome.op = "idle"
        /\ Awaiting /\ Top.command \in FollowUps

\* C10: a sendRequest without a resolved host hands nothing to the transport
\* and raises the precondition error, which is what the task is handed.
C10_NoHostNeverSent ==
    /\ \A i \in 1..Len(stack) : stack[i].host # NoHost
    /\ lastCall.command # "" /\ lastCall.host = NoHost =>
           /\ ~lastCall.sent
           /\ outcome.c.kind = "throw"
           /\ outcome.c.message = NoHostMessage

\* a call made before any session exists was refused
C10_Witness ==
    /\ lastCall.command = "call_method"
    /\ lastCall.host = NoHost
    /\ outcome.op = "callMethod"
    /\ outcome.c.message = NoHostMessage
    /\ stack = <<>>

\* C11: a response that is an error outcome raises an error and returns no
\* result; when it carries no error message at all (a null body, or an error
\* that is empty once its prefix is stripped) the error raised is the generic
\* one naming the command.  Stated for a dispatch whose error reaches the task
\* without passing through a callback.
NoErrorMessage(resp) ==
    \/ resp.kind = "null"
    \/ resp.kind = "error" /\ StripPrefix(resp.error) = ""

C11_ErrorOutcomeRaises ==
    lastResponse.kind \in {"null", "error", "errorDict"} /\ lastCb.nth = 0 =>
        /\ stack = <<>>
        /\ outcome.c.kind = "throw"
        /\ NoErrorMessage(lastResponse) =>
               /\ outcome.c.name = "Error"
               /\ outcome.c.message = GenericMessage(lastResponse.to)

\* C12: the registry never holds the same callable at two handles; registering
\* a callable that is already registered returns its existing handle and adds
\* no entry, and registering a new one returns a handle no other entry has.
NoDuplicates(reg) ==
    \A i, j \in 1..Len(reg) : reg[i] = reg[j] => i = j

C12_RegistryUnique ==
    /\ NoDuplicates(registeredCallbacks)
    /\ registered.fn # NoCallable =>
          /\ Resolve(registeredCallbacks, registered.key) = registered.fn
          /\ registered.known => Len(registeredCallbacks) = registered.before
          /\ ~registered.known =>
                /\ Len(registeredCallbacks) = registered.before + 1
                /\ registered.key = registered.before

C12_Witness ==
    /\ registered.fn = "f2" /\ registered.known /\ registered.key = 1
    /\ registeredCallbacks = <<"f1", "f2">>

\* C13: after a successful clearTestState the registry contains every
\* callable that was registered and marked persistent before the call, and no
\* callable that was not marked persistent.  Marking and registering happen
\* together (rpc.js:55-56), so a persistent callable is registered in every
\* state, before the call included.
Registered(reg) == {reg[i] : i \in 1..Len(reg)}

ClearSucceeded(o) == o.op = "clearTestState" /\ o.c.kind = "return"

C13_ClearKeepsPersistent ==
    /\ persistent \subseteq Registered(registeredCallbacks)
    /\ ClearSucceeded(outcome) =>
          /\ Registered(registeredCallbacks) = persistent
          /\ Len(registeredCallbacks) <= registered.before

C13_Witness ==
    /\ ClearSucceeded(outcome)
    /\ registered.before = 2
    /\ registeredCallbacks = <<"f1">>

\* C14: once clearTestState has removed a non-persistent entry, the handle
\* that entry had resolves to no callable, in whatever order persistent and
\* non-persistent callables were registered before the clear.
C14_ClearedHandleUnresolved ==
    [][ClearSucceeded(outcome') =>
          \A h \in 0..(Len(registeredCallbacks) - 1) :
              Resolve(registeredCallbacks, h) \notin persistent =>
                  Resolve(registeredCallbacks', h) = NoCallable]_vars

\* C15: a persistent callable keeps its handle across a registry reset: the
\* handle it had before a clearTestState resolves to the same callable after
\* it, whatever else was registered.
C15_PersistentHandleStable ==
    [][ClearSucceeded(outcome') =>
          \A h \in 0..(Len(registeredCallbacks) - 1) :
              Resolve(registeredCallbacks, h) \in persistent =>
                  Resolve(registeredCallbacks', h) = Resolve(registeredCallbacks, h)]_vars

\* C16: once a session id exists, every request other than create_session
\* that has been handed to the transport (an ordinary command, a callback
\* follow-up or a background poll) carries the current session id, and the
\* current session id is the one the most recent successful createSession
\* returned.
C16_RequestsCarrySessionId ==
    /\ sessionId # NoSession =>
          \A i \in 1..Len(stack) :
              stack[i].command # "create_session" => stack[i].sid = sessionId
    /\ outcome.op = "createSession" /\ outcome.c.kind = "return" =>
          sessionId = outcome.c.value

C16_Witness ==
    /\ Len(stack) = 2
    /\ stack[1].command = "callbacks_poll"
    /\ stack[2].command = "callback_poll_result"
    /\ stack[2].pc = "await"
    /\ sessionId = 2
    /\ stack[1].sid = 2 /\ stack[2].sid = 2

\* C18 as stated: an idle poll (a callbacks_poll whose response carries no
\* callback) leaves min(2*t, 1000) from a value t.
IdlePoll(resp) ==
    resp.to = "callbacks_poll" /\ resp.kind \in {"result", "null", "error", "errorDict"}

C18_Original ==
    [][IdlePoll(lastResponse') =>
          pollTimeout' = IF 2 * pollTimeout < PollLimit
                         THEN 2 * pollTimeout ELSE PollLimit]_vars

\* C18: an idle poll doubles pollTimeout while it is below the limit and
\* leaves it alone from then on: from a value t below 1000 it leaves 2*t, so
\* 640 becomes 1280, and from 1280 it leaves 1280.
C18_IdlePollDoubles ==
    [][IdlePoll(lastResponse') =>
          pollTimeout' = IF pollTimeout < PollLimit
                         THEN 2 * pollTimeout ELSE pollTimeout]_vars

C18_Witness ==
    /\ IdlePoll(lastResponse) /\ lastResponse.kind = "result"
    /\ lastResponse.before
    /\ pollTimeout = 1280

\* C19: the cancel step at the start of a dispatch leaves no poll timer
\* armed, and at most one poll timer is pending in every reachable state.
C19_OnePollTimer ==
    /\ Cardinality(timers) <= 1
    /\ Awaiting /\ lastCall.sent => timers = {}

\* C20: every follow-up request of a callback chain is sent, and to the host
\* of the request that triggered it.
C20_FollowUpSameHost ==
    /\ \A i \in 1..(Len(stack) - 1) :
           stack[i].pc = "followup" => stack[i + 1].host = stack[i].host
    /\ lastCall.command \in FollowUps => lastCall.sent

\* C17: for every value built from undefined, null, primitives, dates,
\* sequences and plain keyed objects, deserialize(serialize(v)) equals v.
C17_RoundTrip ==
    codec.phase = "decoded" => codec.out = codec.value

====
